---------------------------- MODULE Spec2Model ----------------------------
(***************************************************************************)
(* Live production coordination of sportscast-live: camera liveness        *)
(* (camera-status edge function), LiveKit and Mux webhooks, the director   *)
(* dashboard's camera switch (setActiveCamera) and the LiveKit egress      *)
(* bridge (livekit-egress edge function).                                  *)
(*                                                                         *)
(* The tables `cameras` and `events` are the durable state; the running    *)
(* egresses and the data channel are the external LiveKit state.           *)
(***************************************************************************)
EXTENDS Integers, Sequences, FiniteSets, TLC

(***************************************************************************)
(* Bounds of the model.                                                    *)
(***************************************************************************)
\* the clock `now` runs from 0 to MaxNow (one unit = one minute)
MaxNow == 3
\* number of setActiveCamera invocations started in one behaviour
MaxSwitches == 2
\* number of egresses LiveKit creates in one behaviour
MaxEgress == 2

\* number of ffmpeg processes the bridge starts in one behaviour
MaxProcesses == 3
MaxTimers == 3

\* cleanup-stale: `Date.now() - 2 * 60 * 1000`, in minutes
StaleMinutes == 2

None == "none"

(***************************************************************************)
(* Rows of the tables.  c1 and c2 are cameras of event e1, c3 is a camera  *)
(* of event e2.  A device label is a sequence of characters.               *)
(***************************************************************************)
Cameras == {"c1", "c2", "c3"}
Events == {"e1", "e2"}

event_id == [c \in Cameras |-> IF c = "c3" THEN "e2" ELSE "e1"]

device_label ==
  [c \in Cameras |-> IF c = "c2" THEN <<"C", "a", "m", " ", "2">>
                                 ELSE <<"C", "a", "m">>]

(***************************************************************************)
(* String functions used on labels and participant identities.  The        *)
(* prefix of an identity ("camera_", "director_") is one element of the    *)
(* sequence; the rest is one element per character.                        *)
(***************************************************************************)
toLowerCaseChar(ch) ==
  CASE ch = "C" -> "c"
    [] ch = "A" -> "a"
    [] ch = "M" -> "m"
    [] ch = "X" -> "x"
    [] OTHER -> ch

toLowerCase(s) == [i \in 1..Len(s) |-> toLowerCaseChar(s[i])]

isWhitespace(ch) == ch = " "

\* s.replace(/\s+/g, '_'): every run of whitespace becomes one underscore
RECURSIVE replaceWhitespaceRuns(_)
replaceWhitespaceRuns(s) ==
  IF s = << >> THEN << >>
  ELSE IF isWhitespace(Head(s))
       THEN IF Len(s) > 1 /\ isWhitespace(s[2])
            THEN replaceWhitespaceRuns(Tail(s))
            ELSE <<"_">> \o replaceWhitespaceRuns(Tail(s))
       ELSE <<Head(s)>> \o replaceWhitespaceRuns(Tail(s))

\* s.replace(/_/g, ' ')
replaceUnderscores(s) == [i \in 1..Len(s) |-> IF s[i] = "_" THEN " " ELSE s[i]]

\* identity.replace('camera_', ''): removes the first occurrence of the prefix
RECURSIVE stripCameraPrefix(_)
stripCameraPrefix(id) ==
  IF id = << >> THEN << >>
  ELSE IF Head(id) = "camera_" THEN Tail(id)
       ELSE <<Head(id)>> \o stripCameraPrefix(Tail(id))

startsWithCamera(id) == id # << >> /\ Head(id) = "camera_"

\* `camera_${deviceLabel.toLowerCase().replace(/\s+/g, '_')}`
cameraIdentity(label) == <<"camera_">> \o replaceWhitespaceRuns(toLowerCase(label))

\* device_label ILIKE '%pattern%': case-insensitive substring match
ilikeContains(label, pattern) ==
  \E i \in 0..(Len(label) - Len(pattern)) :
    toLowerCase(SubSeq(label, i + 1, i + Len(pattern))) = toLowerCase(pattern)

\* identities of participants that can be in a room next to the cameras of
\* the tables: a camera participant without a camera row, and the director
UnregisteredIdentity == <<"camera_", "x">>
DirectorIdentity == <<"director_", "d">>

(***************************************************************************)
(* State.                                                                  *)
(***************************************************************************)
VARIABLES
  cameras,      \* table cameras: [is_live, is_active, updated_at] per row
  events,       \* table events: [status, mux_stream_id] per row
  now,          \* the clock (Date.now())
  egress,       \* LiveKit: per egress id [state, room, layout]
  dataChannel,  \* LiveKit: layout_update messages published in a room
  dash,         \* the director dashboards: one setActiveCamera call each
  layoutCall,   \* what the last update_layout request did at LiveKit
  switches,     \* number of setActiveCamera calls started
  evicted,      \* per camera: "sweep" or "disconnect" when that cleared its
                \* is_active and no director selected it since, else "no"
  streamCall,   \* the director dashboards: one startStream call each
  sessions,     \* WebRTCRTMPBridge.sessions: per session id its record
  ffmpegProcesses, \* WebRTCRTMPBridge.ffmpegProcesses: per session id a pid
  pids,         \* number of ffmpeg processes the bridge started
  remoteParticipants, \* LiveKit: camera participants with a video track,
                \* in the order they joined the room of e1
  viewer,       \* a LiveKitViewer of e1: [joined, activeParticipant,
                \* subscribed]; joinedAfter: the number of switches
                \* that were started before it connected
  inflight,     \* layout_update messages on their way to the viewer
  selectedCameraId, \* the director dashboards: the camera shown in the preview
  hb,           \* a useConnectionHeartbeat instance: its props cameraId and
                \* enabled, heartbeatRef, the props of its first render and
                \* lastHeartbeatRef
  rc,           \* a useRealtimeCleanup instance: its props eventId and
                \* enabled and the interval of its last effect
  timers,       \* the interval timers that are set: [id, kind, target]
  nextTimer,    \* the id setInterval returns next
  requests,     \* camera-status requests on their way: [action, target]
  disconnected, \* cameras whose 'disconnect' was applied and whose hook
                \* did not start heartbeats again since
  sweptAt,      \* the time of the last cleanup-stale of e1
  lkStream,     \* per camera its LiveKitCameraStream: room (the room state
                \* of the current render is set), joined and published (at
                \* LiveKit), started (onStreamStart was called)
  webrtc,       \* a useWebRTCStreaming instance: [sessionId, isStreaming,
                \* peerConnection]
  keys,         \* table youtube_stream_keys: [is_active, assigned_event_id]
  eventKey,     \* column events.youtube_stream_key per event
  txn           \* per event the transaction that updates its status and
                \* has run the SELECT of the trigger: [status, available_key]

coreVars == <<cameras, events, now, egress, dataChannel, layoutCall, dash, switches, evicted>>
ingestVars == <<sessions, ffmpegProcesses, pids>>
viewerVars == <<remoteParticipants, viewer, inflight>>

clientVars == <<selectedCameraId>>
hookVars == <<hb, rc, timers, nextTimer, requests, disconnected, sweptAt>>

pageVars == <<lkStream, webrtc>>

keyVars == <<keys, eventKey, txn>>

vars == <<coreVars, streamCall, ingestVars, viewerVars, clientVars, hookVars, pageVars, keyVars>>

Dashboards == {"d1", "d2"}

\* values of events.mux_stream_id: none, a Mux live stream, a LiveKit egress
NoStream == <<"none", 0>>
MuxStreams == {<<"mux", 1>>}
EgressIds == {<<"egress", i>> : i \in 1..MaxEgress}

\* the statuses of the enum event_status
event_status == {"scheduled", "live", "ended"}

\* no update_layout request was made yet
NoLayoutCall == [eventId |-> None, egress_id |-> NoStream, ok |-> FALSE, status |-> None]

\* ids of bridge sessions; a session that was not created is absent
SessionIds == {"s1", "s2"}
NoSession == [status |-> "absent", ffmpegProcess |-> 0, sdpOffer |-> None,
              sdpAnswer |-> 0, startedAt |-> -1, stoppedAt |-> -1]

\* the viewer before it connects: activeParticipant is null
NoViewer == [joined |-> FALSE, activeParticipant |-> << >>, subscribed |-> {},
             joinedAfter |-> 0, leaving |-> {}]

\* no startStream call was made on the dashboard
NoCameraStream == [room |-> FALSE, joined |-> FALSE, published |-> FALSE, started |-> FALSE]

NoWebRTC == [sessionId |-> None, isStreaming |-> FALSE, peerConnection |-> "none"]

\* the stream keys the migration inserts
StreamKeys == {"k1", "k2", "k3"}

NoTxn == [status |-> None, available_key |-> None]

UnmountedHeartbeat ==
  [mounted |-> FALSE, cameraId |-> None, enabled |-> FALSE, heartbeatRef |-> 0,
   first |-> [cameraId |-> None, enabled |-> FALSE], lastHeartbeat |-> 0]

UnmountedCleanup ==
  [mounted |-> FALSE, eventId |-> None, enabled |-> FALSE, cleanupInterval |-> 0]

IdleStreamCall == [pc |-> "idle", eventId |-> None, error |-> FALSE]

IdleDash == [pc |-> "idle", eventId |-> None, participantIdentity |-> << >>,
             requesterRole |-> None,
             layoutResult |-> None, published |-> FALSE]

Init ==
  /\ cameras = [c \in Cameras |-> [is_live |-> FALSE, is_active |-> FALSE, updated_at |-> 0]]
  /\ events = [e \in Events |->
                 [status |-> "scheduled",
                  mux_stream_id |-> IF e = "e2" THEN <<"mux", 1>> ELSE NoStream]]
  /\ now = 0
  /\ egress = [g \in EgressIds |-> [state |-> "absent", room |-> None, layout |-> << >>]]
  /\ dataChannel = {}
  /\ layoutCall = NoLayoutCall
  /\ dash = [d \in Dashboards |-> IdleDash]
  /\ switches = 0
  /\ evicted = [c \in Cameras |-> "no"]
  /\ streamCall = [d \in Dashboards |-> IdleStreamCall]
  /\ sessions = [s \in SessionIds |-> NoSession]
  /\ ffmpegProcesses = [s \in SessionIds |-> 0]
  /\ pids = 0
  /\ remoteParticipants = << >>
  /\ viewer = NoViewer
  /\ inflight = {}
  /\ selectedCameraId = [d \in Dashboards |-> << >>]
  /\ hb = UnmountedHeartbeat
  /\ rc = UnmountedCleanup
  /\ timers = {}
  /\ nextTimer = 1
  /\ requests = {}
  /\ disconnected = {}
  /\ sweptAt = 0
  /\ lkStream = [c \in Cameras |-> NoCameraStream]
  /\ webrtc = NoWebRTC
  /\ keys = [k \in StreamKeys |-> [is_active |-> FALSE, assigned_event_id |-> None]]
  /\ eventKey = [e \in Events |-> None]
  /\ txn = [e \in Events |-> NoTxn]

\* time passes
Tick ==
  /\ now < MaxNow
  /\ now' = now + 1
  /\ UNCHANGED <<cameras, events, egress, dataChannel, layoutCall, dash, switches, evicted, streamCall, ingestVars, viewerVars, clientVars, hookVars, pageVars, keyVars>>

(***************************************************************************)
(* Table updates.  An update sets the given columns of the rows it         *)
(* selects and leaves every other row and column alone.                    *)
(***************************************************************************)
updateCameras(rows, set) ==
  [c \in Cameras |->
     IF c \in rows
     THEN [col \in DOMAIN cameras[c] |->
             IF col \in DOMAIN set THEN set[col] ELSE cameras[c][col]]
     ELSE cameras[c]]

\* `evicted` after `cause` cleared the flags of `rows`
evictedBy(cause, rows) ==
  [c \in Cameras |-> IF c \in rows /\ cameras[c].is_active THEN cause ELSE evicted[c]]

(***************************************************************************)
(* camera-status edge function.                                            *)
(***************************************************************************)
\* a heartbeat that also restores the selection of the camera
HeartbeatRestoring(cameraId) ==
  /\ cameras' = updateCameras({cameraId},
                              [is_live |-> TRUE, is_active |-> TRUE, updated_at |-> now])
  /\ UNCHANGED <<events, now, egress, dataChannel, layoutCall, dash, switches, evicted, streamCall, ingestVars, viewerVars, clientVars, hookVars, pageVars, keyVars>>

\* action 'heartbeat'
Heartbeat(cameraId) ==
  /\ cameras' = updateCameras({cameraId}, [is_live |-> TRUE, updated_at |-> now])
  /\ UNCHANGED <<events, now, egress, dataChannel, layoutCall, dash, switches, evicted, streamCall, ingestVars, viewerVars, clientVars, hookVars, pageVars, keyVars>>

\* a disconnect that leaves the selection of the camera in place
DisconnectKeepingActive(cameraId) ==
  /\ cameras' = updateCameras({cameraId}, [is_live |-> FALSE, updated_at |-> now])
  /\ evicted' = evicted
  /\ UNCHANGED <<events, now, egress, dataChannel, layoutCall, dash, switches, streamCall, ingestVars, viewerVars, clientVars, hookVars, pageVars, keyVars>>

\* action 'disconnect'
Disconnect(cameraId) ==
  /\ cameras' = updateCameras({cameraId}, [is_live |-> FALSE, is_active |-> FALSE, updated_at |-> now])
  /\ evicted' = evictedBy("disconnect", {cameraId})
  /\ UNCHANGED <<events, now, egress, dataChannel, layoutCall, dash, switches, streamCall, ingestVars, viewerVars, clientVars, hookVars, pageVars, keyVars>>

\* the rows selected by cleanup-stale:
\* event_id = eventId, updated_at < now - 2 minutes, is_live = true
staleCameras(eventId) ==
  {c \in Cameras : /\ event_id[c] = eventId
                   /\ cameras[c].updated_at < now - StaleMinutes
                   /\ cameras[c].is_live}

\* action 'cleanup-stale'
CleanupStale(eventId) ==
  /\ cameras' = updateCameras(staleCameras(eventId), [is_live |-> FALSE, is_active |-> FALSE])
  /\ evicted' = evictedBy("sweep", staleCameras(eventId))
  /\ UNCHANGED <<events, now, egress, dataChannel, layoutCall, dash, switches, streamCall, ingestVars, viewerVars, clientVars, hookVars, pageVars, keyVars>>

(***************************************************************************)
(* telegram-stream edge function: startStream and stopStream.              *)
(***************************************************************************)
TelegramStartStream(cameraId) ==
  /\ cameras' = updateCameras({cameraId}, [is_live |-> TRUE, updated_at |-> now])
  /\ UNCHANGED <<events, now, egress, dataChannel, layoutCall, dash, switches, evicted, streamCall, ingestVars, viewerVars, clientVars, hookVars, pageVars, keyVars>>

TelegramStopStream(cameraId) ==
  /\ cameras' = updateCameras({cameraId}, [is_live |-> FALSE, updated_at |-> now])
  /\ UNCHANGED <<events, now, egress, dataChannel, layoutCall, dash, switches, evicted, streamCall, ingestVars, viewerVars, clientVars, hookVars, pageVars, keyVars>>

(***************************************************************************)
(* livekit-webhook edge function.  `room` is the name of the room, which   *)
(* is the event id; `identity` is the identity of the participant.         *)
(***************************************************************************)
\* event.room.name.replace('event_', '')
roomEventId(room) == room

\* identity.replace('camera_', '').replace(/_/g, ' ')
webhookDeviceLabel(identity) == replaceUnderscores(stripCameraPrefix(identity))

\* .eq('event_id', eventId).ilike('device_label', `%${deviceLabel}%`)
webhookCameras(room, identity) ==
  {c \in Cameras : /\ event_id[c] = roomEventId(room)
                   /\ ilikeContains(device_label[c], webhookDeviceLabel(identity))}

\* an update that writes a status outside the enum fails and changes no row
\* an update that stores whatever status it is given
updateEventsAnyStatus(rows, set) ==
  [e \in Events |->
     IF e \in rows
     THEN [col \in DOMAIN events[e] |->
             IF col \in DOMAIN set THEN set[col] ELSE events[e][col]]
     ELSE events[e]]

updateEvents(rows, set) ==
  IF "status" \in DOMAIN set /\ set.status \notin event_status
  THEN events
  ELSE [e \in Events |->
          IF e \in rows
          THEN [col \in DOMAIN events[e] |->
                  IF col \in DOMAIN set THEN set[col] ELSE events[e][col]]
          ELSE events[e]]

handleRoomStarted(room) ==
  /\ events' = updateEvents({roomEventId(room)}, [status |-> "live"])
  /\ UNCHANGED <<cameras, now, egress, dataChannel, layoutCall, dash, switches, evicted, streamCall, ingestVars, viewerVars, clientVars, hookVars, pageVars, keyVars>>

handleRoomFinished(room) ==
  /\ events' = updateEvents({roomEventId(room)}, [status |-> "ended"])
  /\ cameras' = updateCameras({c \in Cameras : event_id[c] = roomEventId(room)},
                              [is_live |-> FALSE, is_active |-> FALSE, updated_at |-> now])
  /\ UNCHANGED <<now, egress, dataChannel, layoutCall, dash, switches, evicted, streamCall, ingestVars, viewerVars, clientVars, hookVars, pageVars, keyVars>>

handleParticipantJoined(room, identity) ==
  /\ cameras' = IF startsWithCamera(identity)
                THEN updateCameras(webhookCameras(room, identity),
                                   [is_live |-> TRUE, updated_at |-> now])
                ELSE cameras
  /\ UNCHANGED <<events, now, egress, dataChannel, layoutCall, dash, switches, evicted, streamCall, ingestVars, viewerVars, clientVars, hookVars, pageVars, keyVars>>

handleParticipantLeft(room, identity) ==
  /\ cameras' = IF startsWithCamera(identity)
                THEN updateCameras(webhookCameras(room, identity),
                                   [is_live |-> FALSE, is_active |-> FALSE, updated_at |-> now])
                ELSE cameras
  /\ UNCHANGED <<events, now, egress, dataChannel, layoutCall, dash, switches, evicted, streamCall, ingestVars, viewerVars, clientVars, hookVars, pageVars, keyVars>>

TrackTypes == {"video", "audio"}

handleTrackPublished(room, identity, trackType) ==
  /\ cameras' = IF trackType = "video" /\ startsWithCamera(identity)
                THEN updateCameras(webhookCameras(room, identity),
                                   [is_live |-> TRUE, updated_at |-> now])
                ELSE cameras
  /\ UNCHANGED <<events, now, egress, dataChannel, layoutCall, dash, switches, evicted, streamCall, ingestVars, viewerVars, clientVars, hookVars, pageVars, keyVars>>

handleTrackUnpublished(room, identity, trackType) ==
  /\ cameras' = IF trackType = "video" /\ startsWithCamera(identity)
                THEN updateCameras(webhookCameras(room, identity),
                                   [is_live |-> FALSE, updated_at |-> now])
                ELSE cameras
  /\ UNCHANGED <<events, now, egress, dataChannel, layoutCall, dash, switches, evicted, streamCall, ingestVars, viewerVars, clientVars, hookVars, pageVars, keyVars>>

handleEgressStarted(room) ==
  /\ events' = updateEvents({roomEventId(room)}, [status |-> "live"])
  /\ UNCHANGED <<cameras, now, egress, dataChannel, layoutCall, dash, switches, evicted, streamCall, ingestVars, viewerVars, clientVars, hookVars, pageVars, keyVars>>

handleEgressEnded(room) ==
  /\ events' = updateEvents({roomEventId(room)}, [status |-> "ended"])
  /\ UNCHANGED <<cameras, now, egress, dataChannel, layoutCall, dash, switches, evicted, streamCall, ingestVars, viewerVars, clientVars, hookVars, pageVars, keyVars>>

(***************************************************************************)
(* mux-webhook edge function.  `id` is the id of the Mux live stream.      *)
(***************************************************************************)
\* .eq('mux_stream_id', id)
eventsOfStream(id) == {e \in Events : events[e].mux_stream_id = id}

handleStreamActive(id) ==
  /\ events' = updateEvents(eventsOfStream(id), [status |-> "live"])
  /\ UNCHANGED <<cameras, now, egress, dataChannel, layoutCall, dash, switches, evicted, streamCall, ingestVars, viewerVars, clientVars, hookVars, pageVars, keyVars>>

handleStreamIdle(id) ==
  /\ events' = updateEvents(eventsOfStream(id), [status |-> "scheduled"])
  /\ UNCHANGED <<cameras, now, egress, dataChannel, layoutCall, dash, switches, evicted, streamCall, ingestVars, viewerVars, clientVars, hookVars, pageVars, keyVars>>

handleStreamRecording(id) ==
  /\ events' = updateEvents(eventsOfStream(id), [status |-> "recording"])
  /\ UNCHANGED <<cameras, now, egress, dataChannel, layoutCall, dash, switches, evicted, streamCall, ingestVars, viewerVars, clientVars, hookVars, pageVars, keyVars>>

handleStreamCompleted(id) ==
  /\ events' = updateEvents(eventsOfStream(id), [status |-> "ended"])
  /\ UNCHANGED <<cameras, now, egress, dataChannel, layoutCall, dash, switches, evicted, streamCall, ingestVars, viewerVars, clientVars, hookVars, pageVars, keyVars>>

(***************************************************************************)
(* LiveKit egress service and the livekit-egress edge function.            *)
(***************************************************************************)
runningEgresses(room) ==
  {g \in EgressIds : egress[g].state = "running" /\ egress[g].room = room}

\* LiveKit ends an egress by itself (the room closed, the target failed)
EgressEnds(g) ==
  /\ egress[g].state = "running"
  /\ egress' = [egress EXCEPT ![g].state = "ended"]
  /\ UNCHANGED <<cameras, events, now, dataChannel, layoutCall, dash, switches, evicted, streamCall, ingestVars, viewerVars, clientVars, hookVars, pageVars, keyVars>>

\* the id LiveKit gives the next egress
newEgressId == CHOOSE g \in EgressIds :
                 /\ egress[g].state = "absent"
                 /\ \A h \in EgressIds : egress[h].state = "absent" => g[2] <= h[2]

\* action 'start'.  keysConfigured: a YouTube or Twitch key is set;
\* egressOk: LiveKit answers the /egress/start request with success
EgressStart(eventId, keysConfigured, egressOk) ==
  /\ \E g \in EgressIds : egress[g].state = "absent"
  /\ IF keysConfigured /\ egressOk
     THEN /\ egress' = [egress EXCEPT ![newEgressId] =
                          [state |-> "running", room |-> eventId, layout |-> << >>]]
          /\ events' = updateEvents({eventId},
                                    [status |-> "live", mux_stream_id |-> newEgressId])
     ELSE UNCHANGED <<egress, events>>
  /\ UNCHANGED <<cameras, now, dataChannel, layoutCall, dash, switches, evicted, streamCall, ingestVars, viewerVars, clientVars, hookVars, pageVars, keyVars>>

\* the /egress/layout request of update_layout: LiveKit applies the layout
\* when the id is a running egress and the request gets through
layoutRequest(egress_id, activeCamera, requestOk) ==
  IF egress_id \in EgressIds /\ egress[egress_id].state = "running" /\ requestOk
  THEN [egress EXCEPT ![egress_id].layout = activeCamera]
  ELSE egress

layoutRequestOk(egress_id, requestOk) ==
  egress_id \in EgressIds /\ egress[egress_id].state = "running" /\ requestOk

\* action 'update_layout': what it does to LiveKit and what it records
updateLayoutEgress(eventId, activeCamera, requestOk) ==
  IF events[eventId].mux_stream_id = NoStream
  THEN egress
  ELSE layoutRequest(events[eventId].mux_stream_id, activeCamera, requestOk)

\* the response of update_layout: 'No active egress to update' without a
\* stored id, else status 'layout_updated' with the requested camera,
\* whatever LiveKit answered
updateLayoutResponse(eventId, activeCamera, requestOk) ==
  IF events[eventId].mux_stream_id = NoStream
  THEN [success |-> TRUE, status |-> "no_active_egress", activeCamera |-> << >>]
  ELSE [success |-> TRUE, status |-> "layout_updated", activeCamera |-> activeCamera]

updateLayoutCall(eventId, activeCamera, requestOk) ==
  IF events[eventId].mux_stream_id = NoStream
  THEN [eventId |-> eventId, egress_id |-> NoStream, ok |-> FALSE,
        status |-> updateLayoutResponse(eventId, activeCamera, requestOk).status]
  ELSE [eventId |-> eventId, egress_id |-> events[eventId].mux_stream_id,
        ok |-> layoutRequestOk(events[eventId].mux_stream_id, requestOk),
        status |-> updateLayoutResponse(eventId, activeCamera, requestOk).status]

EgressUpdateLayout(eventId, activeCamera, requestOk) ==
  /\ egress' = updateLayoutEgress(eventId, activeCamera, requestOk)
  /\ layoutCall' = updateLayoutCall(eventId, activeCamera, requestOk)
  /\ UNCHANGED <<cameras, events, now, dataChannel, dash, switches, evicted, streamCall, ingestVars, viewerVars, clientVars, hookVars, pageVars, keyVars>>

\* action 'stop'
EgressStop(eventId) ==
  /\ events' = updateEvents({eventId}, [status |-> "ended"])
  /\ UNCHANGED <<cameras, now, egress, dataChannel, layoutCall, dash, switches, evicted, streamCall, ingestVars, viewerVars, clientVars, hookVars, pageVars, keyVars>>

(***************************************************************************)
(* Row level security of table cameras for requests made from a browser    *)
(* (the edge functions use the service role and bypass it).  A row can be  *)
(* updated by an owner, director or admin, and by anyone while its event   *)
(* is scheduled or live.                                                   *)
(***************************************************************************)
canUpdateCamera(requesterRole, c) ==
  \/ requesterRole = "director"
  \/ events[event_id[c]].status \in {"scheduled", "live"}

(***************************************************************************)
(* DirectorDashboard.setActiveCamera, one step per awaited request.        *)
(***************************************************************************)
\* the camera participants a dashboard of the event can show
roomCameraIdentities(eventId) ==
  {cameraIdentity(device_label[c]) : c \in {x \in Cameras : event_id[x] = eventId}}
    \cup {UnregisteredIdentity}

CameraOrder == <<"c1", "c2", "c3">>

\* cameras.find(cam => cam.device_label.toLowerCase().replace(/\s+/g, '_')
\*                       === participantIdentity.replace('camera_', ''))
cameraRecord(eventId, participantIdentity) ==
  LET matching == {i \in 1..Len(CameraOrder) :
                     /\ event_id[CameraOrder[i]] = eventId
                     /\ replaceWhitespaceRuns(toLowerCase(device_label[CameraOrder[i]]))
                          = stripCameraPrefix(participantIdentity)}
  IN IF matching = {} THEN None
     ELSE CameraOrder[CHOOSE i \in matching : \A j \in matching : i <= j]

\* the camera row of the participant is connected (is_live)
recordIsLive(eventId, participantIdentity) ==
  /\ cameraRecord(eventId, participantIdentity) # None
  /\ cameras[cameraRecord(eventId, participantIdentity)].is_live

layoutUpdateMessage(eventId, participantIdentity) ==
  [room |-> eventId, type |-> "layout_update", activeCamera |-> participantIdentity]

\* setActiveCameraIdentity and sendDataMessage; when the event is not live
\* the next request is the one of SwitchDeactivate.  published: the
\* dashboard is connected to the room and publishData succeeds
SwitchSend(d, eventId, participantIdentity, requesterRole, published) ==
  /\ dash[d].pc \in {"idle", "done"}
  /\ switches < MaxSwitches
  /\ switches' = switches + 1
  /\ dash' = [dash EXCEPT ![d] =
                [pc |-> IF events[eventId].status = "live" THEN "layout" ELSE "persist",
                 eventId |-> eventId,
                 participantIdentity |-> participantIdentity,
                 requesterRole |-> requesterRole,
                 layoutResult |-> IF events[eventId].status = "live" THEN None ELSE "skipped",
                 published |-> published]]
  /\ dataChannel' = IF published
                    THEN dataChannel \cup {layoutUpdateMessage(eventId, participantIdentity)}
                    ELSE dataChannel
  /\ inflight' = IF published /\ viewer.joined
                 THEN inflight \cup {[activeCamera |-> participantIdentity,
                                      seq |-> switches + 1]}
                 ELSE inflight
  /\ UNCHANGED <<cameras, events, now, egress, layoutCall, evicted, streamCall, ingestVars,
                 remoteParticipants, viewer, clientVars, hookVars, pageVars, keyVars>>

LayoutResults == {"ok", "error", "thrown"}

\* the request reached the function and the function ran to its end
layoutHandlerRan(result, ran) == result = "ok" \/ (result = "thrown" /\ ran)

\* the same request without the inner try/catch: a failure ends the switch
SwitchLayoutAborting(d, result, ran, requestOk) ==
  /\ dash[d].pc = "layout"
  /\ dash' = [dash EXCEPT ![d].pc = IF result = "ok" THEN "persist" ELSE "done",
                          ![d].layoutResult = result]
  /\ IF layoutHandlerRan(result, ran)
     THEN /\ egress' = updateLayoutEgress(dash[d].eventId,
                                          dash[d].participantIdentity, requestOk)
          /\ layoutCall' = updateLayoutCall(dash[d].eventId,
                                            dash[d].participantIdentity, requestOk)
     ELSE UNCHANGED <<egress, layoutCall>>
  /\ UNCHANGED <<cameras, events, now, dataChannel, switches, evicted, streamCall, ingestVars, viewerVars, clientVars, hookVars, pageVars, keyVars>>

\* try { await invoke('livekit-egress', update_layout) } catch {}
SwitchLayout(d, result, ran, requestOk) ==
  /\ dash[d].pc = "layout"
  /\ dash' = [dash EXCEPT ![d].pc = "persist", ![d].layoutResult = result]
  /\ IF layoutHandlerRan(result, ran)
     THEN /\ egress' = updateLayoutEgress(dash[d].eventId,
                                          dash[d].participantIdentity, requestOk)
          /\ layoutCall' = updateLayoutCall(dash[d].eventId,
                                            dash[d].participantIdentity, requestOk)
     ELSE UNCHANGED <<egress, layoutCall>>
  /\ UNCHANGED <<cameras, events, now, dataChannel, switches, evicted, streamCall, ingestVars, viewerVars, clientVars, hookVars, pageVars, keyVars>>

\* cameras.find(...) and update({ is_active: false }).eq('event_id', eventId)
SwitchDeactivate(d) ==
  /\ dash[d].pc = "persist"
  /\ IF cameraRecord(dash[d].eventId, dash[d].participantIdentity) = None
     THEN /\ dash' = [dash EXCEPT ![d].pc = "done"]
          /\ selectedCameraId' = [selectedCameraId EXCEPT ![d] = dash[d].participantIdentity]
          /\ UNCHANGED cameras
     ELSE /\ dash' = [dash EXCEPT ![d].pc = "activate"]
          /\ cameras' = updateCameras(
                          {c \in Cameras : /\ event_id[c] = dash[d].eventId
                                           /\ canUpdateCamera(dash[d].requesterRole, c)},
                          [is_active |-> FALSE])
          /\ UNCHANGED selectedCameraId
  /\ UNCHANGED <<events, now, egress, dataChannel, layoutCall, switches, evicted, streamCall, ingestVars, viewerVars, hookVars, pageVars, keyVars>>

\* update({ is_active: true }).eq('id', cameraRecord.id), then the
\* switch-camera function logs the switch and setSelectedCameraId
SwitchActivate(d) ==
  LET record == cameraRecord(dash[d].eventId, dash[d].participantIdentity)
      allowed == canUpdateCamera(dash[d].requesterRole, record)
  IN /\ dash[d].pc = "activate"
     /\ cameras' = updateCameras(IF allowed THEN {record} ELSE {}, [is_active |-> TRUE])
     /\ dash' = [dash EXCEPT ![d].pc = "done"]
     /\ evicted' = IF allowed THEN [evicted EXCEPT ![record] = "no"] ELSE evicted
     /\ selectedCameraId' = [selectedCameraId EXCEPT ![d] = dash[d].participantIdentity]
     /\ UNCHANGED <<events, now, egress, dataChannel, layoutCall, switches, streamCall, ingestVars, viewerVars, hookVars, pageVars, keyVars>>

\* the state activeCameraIdentity of a dashboard: null until setActiveCamera
\* sets it to the identity it was called with
activeCameraIdentity(d) == dash[d].participantIdentity

\* the page of the dashboard is loaded again: the component state starts over
DashboardReload(d) ==
  /\ dash[d].pc = "done"
  /\ dash' = [dash EXCEPT ![d] = IdleDash]
  /\ selectedCameraId' = [selectedCameraId EXCEPT ![d] = << >>]
  /\ UNCHANGED <<cameras, events, now, egress, dataChannel, layoutCall, switches, evicted,
                 streamCall, ingestVars, viewerVars, hookVars, pageVars, keyVars>>

\* the effect that selects the first camera participant for the preview
\* when none is selected
AutoSelectFirstCamera(d) ==
  /\ remoteParticipants # << >>
  /\ selectedCameraId[d] = << >>
  /\ selectedCameraId' = [selectedCameraId EXCEPT ![d] = Head(remoteParticipants)]
  /\ UNCHANGED <<coreVars, streamCall, ingestVars, viewerVars, hookVars, pageVars, keyVars>>

(***************************************************************************)
(* DirectorDashboard.startStream, one step per awaited request.            *)
(***************************************************************************)
\* a startStream that goes on to its update whatever the function answered
StartStreamInvokeUnchecked(d, eventId, keysConfigured, egressOk) ==
  /\ streamCall[d].pc \in {"idle", "started", "failed"}
  /\ \E g \in EgressIds : egress[g].state = "absent"
  /\ IF keysConfigured /\ egressOk
     THEN /\ egress' = [egress EXCEPT ![newEgressId] =
                          [state |-> "running", room |-> eventId, layout |-> << >>]]
          /\ events' = updateEvents({eventId},
                                    [status |-> "live", mux_stream_id |-> newEgressId])
     ELSE UNCHANGED <<egress, events>>
  /\ streamCall' = [streamCall EXCEPT ![d] =
                      [pc |-> "update", eventId |-> eventId,
                       error |-> ~(keysConfigured /\ egressOk)]]
  /\ UNCHANGED <<cameras, now, dataChannel, layoutCall, dash, switches, evicted,
                 ingestVars, viewerVars, clientVars, hookVars, pageVars, keyVars>>

\* invoke('livekit-egress', { action: 'start' }): the function runs as in
\* EgressStart; its error response makes startStream throw
StartStreamInvoke(d, eventId, keysConfigured, egressOk) ==
  /\ streamCall[d].pc \in {"idle", "started", "failed"}
  /\ \E g \in EgressIds : egress[g].state = "absent"
  /\ IF keysConfigured /\ egressOk
     THEN /\ egress' = [egress EXCEPT ![newEgressId] =
                          [state |-> "running", room |-> eventId, layout |-> << >>]]
          /\ events' = updateEvents({eventId},
                                    [status |-> "live", mux_stream_id |-> newEgressId])
     ELSE UNCHANGED <<egress, events>>
  /\ streamCall' = [streamCall EXCEPT ![d] =
                      [pc |-> IF keysConfigured /\ egressOk THEN "update" ELSE "failed",
                       eventId |-> eventId,
                       error |-> ~(keysConfigured /\ egressOk)]]
  /\ UNCHANGED <<cameras, now, dataChannel, layoutCall, dash, switches, evicted,
                 ingestVars, viewerVars, clientVars, hookVars, pageVars, keyVars>>

\* update({ status: 'live' }).eq('id', eventId) from the browser; allowed:
\* the policies of table events let this user update the row
StartStreamUpdate(d, allowed) ==
  /\ streamCall[d].pc = "update"
  /\ events' = IF allowed THEN updateEvents({streamCall[d].eventId}, [status |-> "live"])
                ELSE events
  /\ streamCall' = [streamCall EXCEPT ![d].pc = "started"]
  /\ UNCHANGED <<cameras, now, egress, dataChannel, layoutCall, dash, switches, evicted,
                 ingestVars, viewerVars, clientVars, hookVars, pageVars, keyVars>>

(***************************************************************************)
(* WebRTCRTMPBridge of the webrtc-rtmp-bridge edge function.  A request    *)
(* for a session id without a session throws 'Session not found' and       *)
(* changes nothing.  A pid and an SDP answer are numbered by the process    *)
(* they belong to.                                                         *)
(***************************************************************************)
SdpOffers == {"offer1", "offer2"}

\* createSession: a new session id with status 'created'
BridgeCreateSession(sessionId) ==
  /\ sessions[sessionId].status = "absent"
  /\ sessions' = [sessions EXCEPT ![sessionId] =
                    [NoSession EXCEPT !.status = "created"]]
  /\ UNCHANGED <<coreVars, streamCall, ffmpegProcesses, pids, viewerVars, clientVars, hookVars, pageVars, keyVars>>

\* startStreaming with startFFmpegProcess.  ffmpegOk: the process starts;
\* otherwise startFFmpegProcess throws and the catch records the error
BridgeStartStreaming(sessionId, sdpOffer, ffmpegOk) ==
  /\ sessions[sessionId].status # "absent"
  /\ pids < MaxProcesses
  /\ IF ffmpegOk
     THEN /\ pids' = pids + 1
          /\ ffmpegProcesses' = [ffmpegProcesses EXCEPT ![sessionId] = pids + 1]
          /\ sessions' = [sessions EXCEPT ![sessionId] =
                            [status |-> "streaming",
                             ffmpegProcess |-> pids + 1,
                             sdpOffer |-> sdpOffer,
                             sdpAnswer |-> pids + 1,
                             startedAt |-> now,
                             stoppedAt |-> sessions[sessionId].stoppedAt]]
     ELSE /\ sessions' = [sessions EXCEPT ![sessionId].status = "error"]
          /\ UNCHANGED <<ffmpegProcesses, pids>>
  /\ UNCHANGED <<coreVars, streamCall, viewerVars, clientVars, hookVars, pageVars, keyVars>>

\* stopStreaming
BridgeStopStreaming(sessionId) ==
  /\ sessions[sessionId].status # "absent"
  /\ sessions' = [sessions EXCEPT ![sessionId].status = "stopped",
                                  ![sessionId].stoppedAt = now]
  /\ UNCHANGED <<coreVars, streamCall, ffmpegProcesses, pids, viewerVars, clientVars, hookVars, pageVars, keyVars>>

(***************************************************************************)
(* LiveKitViewer of event e1, and the cameras that publish in the room.    *)
(* layout_update messages are published without the reliable option, so   *)
(* LiveKit may deliver them in any order or drop them.                     *)
(***************************************************************************)
\* LiveKitCameraStream.startStreaming: the camera joins the room and
\* publishes its video track
CameraPublishes(c) ==
  /\ \A i \in 1..Len(remoteParticipants) :
       remoteParticipants[i] # cameraIdentity(device_label[c])
  /\ remoteParticipants' = Append(remoteParticipants, cameraIdentity(device_label[c]))
  /\ UNCHANGED <<coreVars, streamCall, ingestVars, viewer, inflight, clientVars, hookVars, pageVars, keyVars>>

\* the activeParticipant the handlers of the connect effect read: the effect
\* runs once per eventId, so its handlers keep the null of that render
handlerActiveParticipant == << >>

\* updateParticipants: with no active participant, the first camera
\* participant that has a video publication
updateParticipants(current) ==
  IF handlerActiveParticipant = << >> /\ remoteParticipants # << >>
  THEN Head(remoteParticipants)
  ELSE current

inRoom(identity) ==
  \E i \in 1..Len(remoteParticipants) : remoteParticipants[i] = identity

\* the layout_update messages a director can publish
Messages == {[activeCamera |-> id, seq |-> n] :
               id \in {cameraIdentity(device_label[c]) : c \in Cameras},
               n \in 1..(MaxSwitches + 1)}

\* connectToRoom: room.connect, then updateParticipants
ViewerConnect ==
  /\ ~viewer.joined
  /\ viewer' = [viewer EXCEPT !.joined = TRUE,
                              !.joinedAfter = switches,
                              !.activeParticipant = updateParticipants(@)]
  /\ UNCHANGED <<coreVars, streamCall, ingestVars, remoteParticipants, inflight, clientVars, hookVars, pageVars, keyVars>>

\* RoomEvent.TrackSubscribed for the video track of a camera participant
ViewerTrackSubscribed(identity) ==
  /\ viewer.joined
  /\ \E i \in 1..Len(remoteParticipants) : remoteParticipants[i] = identity
  /\ identity \notin viewer.subscribed
  /\ viewer' = [viewer EXCEPT
                  !.subscribed = @ \cup {identity},
                  !.activeParticipant =
                     IF handlerActiveParticipant = << >>
                        \/ identity = handlerActiveParticipant
                     THEN identity ELSE @]
  /\ UNCHANGED <<coreVars, streamCall, ingestVars, remoteParticipants, inflight, clientVars, hookVars, pageVars, keyVars>>

\* RoomEvent.DataReceived for a layout_update message
ViewerDataReceived(m) ==
  /\ m \in inflight
  /\ inflight' = inflight \ {m}
  /\ viewer' = [viewer EXCEPT
                  !.activeParticipant =
                     IF \E i \in 1..Len(remoteParticipants) :
                          remoteParticipants[i] = m.activeCamera
                     THEN m.activeCamera ELSE @]
  /\ UNCHANGED <<coreVars, streamCall, ingestVars, remoteParticipants, clientVars, hookVars, pageVars, keyVars>>

\* LiveKitCameraStream.stopStreaming: the camera unpublishes its tracks and
\* leaves the room; a joined viewer gets ParticipantDisconnected later
CameraStops(c) ==
  /\ inRoom(cameraIdentity(device_label[c]))
  /\ remoteParticipants' = SelectSeq(remoteParticipants,
                                     LAMBDA id : id # cameraIdentity(device_label[c]))
  /\ viewer' = IF viewer.joined
               THEN [viewer EXCEPT !.leaving = @ \cup {cameraIdentity(device_label[c])}]
               ELSE viewer
  /\ UNCHANGED <<coreVars, streamCall, ingestVars, inflight, clientVars, hookVars, pageVars, keyVars>>

\* RoomEvent.TrackUnsubscribed for the video track of a camera participant
\* that unpublished it
ViewerTrackUnsubscribed(identity) ==
  /\ viewer.joined
  /\ identity \in viewer.subscribed
  /\ ~inRoom(identity)
  /\ viewer' = [viewer EXCEPT
                  !.subscribed = @ \ {identity},
                  !.activeParticipant =
                     IF identity = handlerActiveParticipant
                     THEN (IF remoteParticipants # << >>
                           THEN Head(remoteParticipants)
                           ELSE << >>)
                     ELSE @]
  /\ UNCHANGED <<coreVars, streamCall, ingestVars, remoteParticipants, inflight, clientVars, hookVars, pageVars, keyVars>>

\* RoomEvent.ParticipantDisconnected: updateParticipants
ViewerParticipantDisconnected(identity) ==
  /\ viewer.joined
  /\ identity \in viewer.leaving
  /\ identity \notin viewer.subscribed
  /\ viewer' = [viewer EXCEPT !.leaving = @ \ {identity},
                              !.activeParticipant = updateParticipants(@)]
  /\ UNCHANGED <<coreVars, streamCall, ingestVars, remoteParticipants, inflight, clientVars, hookVars, pageVars, keyVars>>

\* the dashboard of a director shows a card per camera participant of the
\* room; onActivate of a card calls setActiveCamera
onActivate(d, identity) ==
  /\ inRoom(identity)
  /\ SwitchSend(d, "e1", identity, "director", TRUE)

\* LiveKit drops a message
DataLost(m) ==
  /\ m \in inflight
  /\ inflight' = inflight \ {m}
  /\ UNCHANGED <<coreVars, streamCall, ingestVars, remoteParticipants, viewer, clientVars, hookVars, pageVars, keyVars>>

(***************************************************************************)
(* useConnectionHeartbeat.  A render with props (cameraId, enabled) runs   *)
(* the effect of lines 82-90: the cleanup of the previous run              *)
(* (stopHeartbeat), then startHeartbeat or stopHeartbeat.                  *)
(***************************************************************************)
\* the timers left after clearInterval(heartbeatRef.current)
stopHeartbeatKept(set) == {t \in set : t.id # hb.heartbeatRef}

\* a stopHeartbeat that forgets the timer without clearing it
stopHeartbeatLeaking(set) == set

\* stopHeartbeat: the timers that remain set
stopHeartbeat(set) == stopHeartbeatKept(set)

\* sendHeartbeat of a render with props (cameraId, enabled): the requests
\* it adds; by: what called it, the effect or a timer
sendHeartbeat(cameraId, enabled, by) ==
  IF cameraId = None \/ ~enabled
  THEN {}
  ELSE {[action |-> "heartbeat", target |-> cameraId, by |-> by]}

\* markOffline of a render with prop cameraId
markOffline(cameraId) ==
  IF cameraId = None
  THEN {}
  ELSE {[action |-> "disconnect", target |-> cameraId, by |-> "effect"]}

\* the effect of lines 82-90 for the props (cameraId, enabled)
heartbeatEffect(cameraId, enabled, first, lastHeartbeat) ==
  IF enabled /\ cameraId # None
  THEN \* startHeartbeat
       /\ nextTimer <= MaxTimers
       /\ timers' = stopHeartbeat(timers)
                      \cup {[id |-> nextTimer, kind |-> "heartbeat", target |-> cameraId]}
       /\ nextTimer' = nextTimer + 1
       /\ requests' = requests \cup sendHeartbeat(cameraId, enabled, "effect")
       /\ disconnected' = disconnected \ {cameraId}
       /\ hb' = [mounted |-> TRUE, cameraId |-> cameraId, enabled |-> enabled,
                 heartbeatRef |-> nextTimer, first |-> first,
                 lastHeartbeat |-> lastHeartbeat]
  ELSE \* stopHeartbeat
       /\ timers' = stopHeartbeat(timers)
       /\ hb' = [mounted |-> TRUE, cameraId |-> cameraId, enabled |-> enabled,
                 heartbeatRef |-> 0, first |-> first, lastHeartbeat |-> lastHeartbeat]
       /\ UNCHANGED <<nextTimer, requests, disconnected>>

\* the first render of the component
HeartbeatMount(cameraId, enabled) ==
  /\ ~hb.mounted
  /\ heartbeatEffect(cameraId, enabled, [cameraId |-> cameraId, enabled |-> enabled], now)
  /\ UNCHANGED <<coreVars, streamCall, ingestVars, viewerVars, clientVars, rc, sweptAt, pageVars, keyVars>>

\* a later render with other props
HeartbeatRender(cameraId, enabled) ==
  /\ hb.mounted
  /\ <<cameraId, enabled>> # <<hb.cameraId, hb.enabled>>
  /\ heartbeatEffect(cameraId, enabled, hb.first, hb.lastHeartbeat)
  /\ UNCHANGED <<coreVars, streamCall, ingestVars, viewerVars, clientVars, rc, sweptAt, pageVars, keyVars>>

\* the component unmounts: the cleanups of both effects run; the cleanup
\* of lines 93-100 reads enabled and cameraId of the first render
HeartbeatUnmount ==
  /\ hb.mounted
  /\ timers' = stopHeartbeat(timers)
  /\ requests' = requests \cup (IF hb.first.enabled /\ hb.first.cameraId # None
                                 THEN markOffline(hb.first.cameraId)
                                 ELSE {})
  /\ hb' = [hb EXCEPT !.mounted = FALSE, !.heartbeatRef = 0]
  /\ UNCHANGED <<coreVars, streamCall, ingestVars, viewerVars, clientVars, rc, nextTimer,
                 disconnected, sweptAt, pageVars, keyVars>>

\* an interval timer of the hook fires: sendHeartbeat of the render that
\* set it
HeartbeatTimerFires(t) ==
  /\ t \in timers
  /\ t.kind = "heartbeat"
  /\ requests' = requests \cup sendHeartbeat(t.target, TRUE, "timer")
  /\ UNCHANGED <<coreVars, streamCall, ingestVars, viewerVars, clientVars, hb, rc, timers,
                 nextTimer, disconnected, sweptAt, pageVars, keyVars>>

(***************************************************************************)
(* useRealtimeCleanup.                                                     *)
(***************************************************************************)
\* cleanupStaleConnections of a render with props (eventId, enabled)
cleanupStaleConnections(eventId, enabled, by) ==
  IF eventId = None \/ ~enabled
  THEN {}
  ELSE {[action |-> "cleanup-stale", target |-> eventId, by |-> by]}

\* the effect for the props (eventId, enabled), after the cleanup of the
\* previous run cleared its interval
cleanupEffect(eventId, enabled) ==
  LET kept == {t \in timers : t.id # rc.cleanupInterval}
  IN IF enabled /\ eventId # None
     THEN /\ nextTimer <= MaxTimers
          /\ requests' = requests \cup cleanupStaleConnections(eventId, enabled, "effect")
          /\ timers' = kept \cup {[id |-> nextTimer, kind |-> "cleanup", target |-> eventId]}
          /\ nextTimer' = nextTimer + 1
          /\ rc' = [mounted |-> TRUE, eventId |-> eventId, enabled |-> enabled,
                    cleanupInterval |-> nextTimer]
     ELSE /\ timers' = kept
          /\ rc' = [mounted |-> TRUE, eventId |-> eventId, enabled |-> enabled,
                    cleanupInterval |-> 0]
          /\ UNCHANGED <<nextTimer, requests>>

CleanupMount(eventId, enabled) ==
  /\ ~rc.mounted
  /\ cleanupEffect(eventId, enabled)
  /\ UNCHANGED <<coreVars, streamCall, ingestVars, viewerVars, clientVars, hb, disconnected,
                 sweptAt, pageVars, keyVars>>

CleanupRender(eventId, enabled) ==
  /\ rc.mounted
  /\ <<eventId, enabled>> # <<rc.eventId, rc.enabled>>
  /\ cleanupEffect(eventId, enabled)
  /\ UNCHANGED <<coreVars, streamCall, ingestVars, viewerVars, clientVars, hb, disconnected,
                 sweptAt, pageVars, keyVars>>

CleanupUnmount ==
  /\ rc.mounted
  /\ timers' = {t \in timers : t.id # rc.cleanupInterval}
  /\ rc' = [rc EXCEPT !.mounted = FALSE, !.cleanupInterval = 0]
  /\ UNCHANGED <<coreVars, streamCall, ingestVars, viewerVars, clientVars, hb, nextTimer,
                 requests, disconnected, sweptAt, pageVars, keyVars>>

CleanupTimerFires(t) ==
  /\ t \in timers
  /\ t.kind = "cleanup"
  /\ requests' = requests \cup cleanupStaleConnections(t.target, TRUE, "timer")
  /\ UNCHANGED <<coreVars, streamCall, ingestVars, viewerVars, clientVars, hb, rc, timers,
                 nextTimer, disconnected, sweptAt, pageVars, keyVars>>

(***************************************************************************)
(* A camera-status request of a hook arrives at the edge function and is   *)
(* answered.                                                               *)
(***************************************************************************)
\* action 'heartbeat'; the hook then sets lastHeartbeatRef
HeartbeatDelivered(r) ==
  /\ r \in requests
  /\ r.action = "heartbeat"
  /\ requests' = requests \ {r}
  /\ cameras' = updateCameras({r.target}, [is_live |-> TRUE, updated_at |-> now])
  /\ hb' = [hb EXCEPT !.lastHeartbeat = now]
  /\ UNCHANGED <<events, now, egress, dataChannel, layoutCall, dash, switches, evicted,
                 streamCall, ingestVars, viewerVars, clientVars, rc, timers, nextTimer,
                 disconnected, sweptAt, pageVars, keyVars>>

\* action 'disconnect'
DisconnectDelivered(r) ==
  /\ r \in requests
  /\ r.action = "disconnect"
  /\ requests' = requests \ {r}
  /\ cameras' = updateCameras({r.target},
                              [is_live |-> FALSE, is_active |-> FALSE, updated_at |-> now])
  /\ evicted' = evictedBy("disconnect", {r.target})
  /\ disconnected' = disconnected \cup {r.target}
  /\ UNCHANGED <<events, now, egress, dataChannel, layoutCall, dash, switches, streamCall,
                 ingestVars, viewerVars, clientVars, hb, rc, timers, nextTimer, sweptAt, pageVars, keyVars>>

\* action 'cleanup-stale'
CleanupStaleDelivered(r) ==
  /\ r \in requests
  /\ r.action = "cleanup-stale"
  /\ requests' = requests \ {r}
  /\ cameras' = updateCameras(staleCameras(r.target), [is_live |-> FALSE, is_active |-> FALSE])
  /\ evicted' = evictedBy("sweep", staleCameras(r.target))
  /\ sweptAt' = IF r.target = "e1" THEN now ELSE sweptAt
  /\ UNCHANGED <<events, now, egress, dataChannel, layoutCall, dash, switches, streamCall,
                 ingestVars, viewerVars, clientVars, hb, rc, timers, nextTimer, disconnected, pageVars, keyVars>>

(***************************************************************************)
(* LiveKitCameraStream with useLiveKitRoom.                                *)
(***************************************************************************)
\* startStreaming reaches onStreamStart.  ready: the media stream is there
\* and the camera is registered (else it throws before connecting);
\* publishTrack on the localParticipant of a room that was left throws
startCompletes(c, ready) ==
  ready /\ ~(lkStream[c].room /\ ~lkStream[c].joined)

\* startStreaming.  tokenOk, connectOk: livekit-token and room.connect
\* succeed.  connectToRoom catches its own errors; room and
\* localParticipant are those of the render that created the function
LkStartStreaming(c, ready, tokenOk, connectOk) ==
  /\ lkStream' = IF ready
                 THEN [lkStream EXCEPT
                         ![c].joined = @ \/ (tokenOk /\ connectOk),
                         ![c].published = @ \/ (lkStream[c].room /\ lkStream[c].joined),
                         ![c].started = @ \/ startCompletes(c, ready)]
                 ELSE lkStream
  /\ UNCHANGED <<coreVars, streamCall, ingestVars, viewerVars, clientVars, hookVars, webrtc, keyVars>>

\* RoomEvent.Connected and RoomEvent.Disconnected set the room state: the
\* component renders again
LkRender(c) ==
  /\ lkStream[c].room # lkStream[c].joined
  /\ lkStream' = [lkStream EXCEPT ![c].room = lkStream[c].joined]
  /\ UNCHANGED <<coreVars, streamCall, ingestVars, viewerVars, clientVars, hookVars, webrtc, keyVars>>

\* stopStreaming: unpublish, disconnectFromRoom, onStreamStop
LkStopStreaming(c) ==
  /\ lkStream' = [lkStream EXCEPT ![c].joined = FALSE, ![c].published = FALSE,
                                  ![c].started = FALSE]
  /\ UNCHANGED <<coreVars, streamCall, ingestVars, viewerVars, clientVars, hookVars, webrtc, keyVars>>

(***************************************************************************)
(* useWebRTCStreaming: the client of the ingest bridge.                    *)
(***************************************************************************)
\* initializeStreaming: createSession at the bridge, then the session id is
\* kept in the state
WebrtcInitialize(sessionId) ==
  /\ sessions[sessionId].status = "absent"
  /\ sessions' = [sessions EXCEPT ![sessionId] = [NoSession EXCEPT !.status = "created"]]
  /\ webrtc' = [webrtc EXCEPT !.sessionId = sessionId]
  /\ UNCHANGED <<coreVars, streamCall, ffmpegProcesses, pids, viewerVars, clientVars, hookVars,
                 lkStream, keyVars>>

\* startStreaming: a peer connection is created, the offer is sent to the
\* bridge's startStreaming, and the answer is set as remote description.
\* ffmpegOk: the bridge starts its process and answers; remoteOk:
\* setRemoteDescription succeeds.  Every failure ends in the catch, which
\* closes the peer connection
WebrtcStartStreaming(sdpOffer, ffmpegOk, remoteOk) ==
  LET sessionId == webrtc.sessionId
  IN /\ sessionId # None
     /\ pids < MaxProcesses
     /\ IF ffmpegOk
        THEN /\ pids' = pids + 1
             /\ ffmpegProcesses' = [ffmpegProcesses EXCEPT ![sessionId] = pids + 1]
             /\ sessions' = [sessions EXCEPT ![sessionId] =
                               [status |-> "streaming",
                                ffmpegProcess |-> pids + 1,
                                sdpOffer |-> sdpOffer,
                                sdpAnswer |-> pids + 1,
                                startedAt |-> now,
                                stoppedAt |-> sessions[sessionId].stoppedAt]]
        ELSE /\ sessions' = [sessions EXCEPT ![sessionId].status = "error"]
             /\ UNCHANGED <<ffmpegProcesses, pids>>
     /\ webrtc' = IF ffmpegOk /\ remoteOk
                  THEN [webrtc EXCEPT !.isStreaming = TRUE, !.peerConnection = "open"]
                  ELSE [webrtc EXCEPT !.isStreaming = FALSE, !.peerConnection = "closed"]
     /\ UNCHANGED <<coreVars, streamCall, viewerVars, clientVars, hookVars, lkStream, keyVars>>

\* stopStreaming: the peer connection is closed, the bridge session is
\* stopped and the state starts over
WebrtcStopStreaming ==
  /\ sessions' = IF webrtc.sessionId # None
                 THEN [sessions EXCEPT ![webrtc.sessionId].status = "stopped",
                                       ![webrtc.sessionId].stoppedAt = now]
                 ELSE sessions
  /\ webrtc' = [sessionId |-> None, isStreaming |-> FALSE,
                peerConnection |-> IF webrtc.peerConnection = "none" THEN "none" ELSE "closed"]
  /\ UNCHANGED <<coreVars, streamCall, ffmpegProcesses, pids, viewerVars, clientVars, hookVars,
                 lkStream, keyVars>>

(***************************************************************************)
(* The trigger assign_youtube_stream_key, BEFORE UPDATE ON events, in the  *)
(* transaction of an update that sets the status of an event.  The rows of *)
(* the migration have the same created_at, so ORDER BY created_at LIMIT 1  *)
(* may return any inactive key.                                            *)
(***************************************************************************)
\* the trigger assigns a key: NEW.status = 'live', OLD.status # 'live' and
\* NEW.youtube_stream_key IS NULL
assigns(e, status) ==
  status = "live" /\ events[e].status # "live" /\ eventKey[e] = None

\* the trigger releases the key: NEW.status = 'ended', OLD.status = 'live'
\* and NEW.youtube_stream_key IS NOT NULL
releases(e, status, key) ==
  status = "ended" /\ events[e].status = "live" /\ key # None

\* the results of SELECT stream_key ... WHERE is_active = false LIMIT 1
availableKeys ==
  IF \E k \in StreamKeys : ~keys[k].is_active
  THEN {k \in StreamKeys : ~keys[k].is_active}
  ELSE {None}

\* table youtube_stream_keys after the two UPDATEs of the trigger
triggerKeys(e, status, available_key) ==
  LET assigned == IF assigns(e, status) /\ available_key # None
                  THEN [keys EXCEPT ![available_key] =
                          [is_active |-> TRUE, assigned_event_id |-> e]]
                  ELSE keys
      key == IF assigns(e, status) /\ available_key # None
             THEN available_key ELSE eventKey[e]
  IN IF releases(e, status, key)
     THEN [assigned EXCEPT ![key] = [is_active |-> FALSE, assigned_event_id |-> None]]
     ELSE assigned

\* NEW.youtube_stream_key
triggerEventKey(e, status, available_key) ==
  IF assigns(e, status) /\ available_key # None THEN available_key ELSE eventKey[e]

\* an update of the status of an event, alone in its transaction
StatusUpdate(e, status, available_key) ==
  /\ txn[e] = NoTxn
  /\ available_key \in availableKeys
  /\ keys' = triggerKeys(e, status, available_key)
  /\ eventKey' = [eventKey EXCEPT ![e] = triggerEventKey(e, status, available_key)]
  /\ events' = updateEvents({e}, [status |-> status])
  /\ UNCHANGED <<cameras, now, egress, dataChannel, layoutCall, dash, switches, evicted,
                 streamCall, ingestVars, viewerVars, clientVars, hookVars, pageVars, txn>>

\* the transaction of an update starts and its trigger runs the SELECT
TriggerSelects(e, status, available_key) ==
  /\ txn[e] = NoTxn
  /\ available_key \in availableKeys
  /\ txn' = [txn EXCEPT ![e] = [status |-> status, available_key |-> available_key]]
  /\ UNCHANGED <<coreVars, streamCall, ingestVars, viewerVars, clientVars, hookVars, pageVars,
                 keys, eventKey>>

\* the trigger runs its UPDATEs with the key it selected and the
\* transaction commits
TriggerCommits(e) ==
  /\ txn[e] # NoTxn
  /\ keys' = triggerKeys(e, txn[e].status, txn[e].available_key)
  /\ eventKey' = [eventKey EXCEPT
                    ![e] = triggerEventKey(e, txn[e].status, txn[e].available_key)]
  /\ events' = updateEvents({e}, [status |-> txn[e].status])
  /\ txn' = [txn EXCEPT ![e] = NoTxn]
  /\ UNCHANGED <<cameras, now, egress, dataChannel, layoutCall, dash, switches, evicted,
                 streamCall, ingestVars, viewerVars, clientVars, hookVars, pageVars>>

(***************************************************************************)
(* Joining an event: the livekit-token and livekit-ingress edge functions  *)
(* and the insert policy of table cameras.                                 *)
(***************************************************************************)
\* livekit-token: a token for the room of the event is signed whenever the
\* parameters and the LiveKit configuration are present
livekitToken(eventId, participantIdentity) ==
  [success |-> TRUE, roomName |-> eventId, participantIdentity |-> participantIdentity]

\* a camera connects to the room with its token; LiveKit then sends the
\* participant_joined webhook
CameraJoinsWithToken(eventId, identity) ==
  /\ livekitToken(eventId, identity).success
  /\ handleParticipantJoined(eventId, identity)

DeviceLabels == {device_label[c] : c \in Cameras}

\* livekit-ingress.  ingressOk: LiveKit answers the /ingress request with
\* success; otherwise the function throws before its update
LivekitIngress(eventId, deviceLabel, ingressOk) ==
  /\ cameras' = IF ingressOk
                THEN updateCameras({c \in Cameras : /\ event_id[c] = eventId
                                                    /\ device_label[c] = deviceLabel},
                                   [is_live |-> TRUE])
                ELSE cameras
  /\ UNCHANGED <<events, now, egress, dataChannel, layoutCall, dash, switches, evicted,
                 streamCall, ingestVars, viewerVars, clientVars, hookVars, pageVars, keyVars>>

\* policy "Anyone can register cameras for events" (INSERT) next to the
\* policy for owners, directors and admins
canInsertCamera(requesterRole, eventId) ==
  \/ requesterRole = "director"
  \/ events[eventId].status \in {"scheduled", "live"}

(***************************************************************************)
(* Specifications.                                                         *)
(***************************************************************************)
\* d1 is the session of a director, d2 the session of another user
sessionRole == [d \in Dashboards |-> IF d = "d1" THEN "director" ELSE "viewer"]

E1Cameras == {c \in Cameras : event_id[c] = "e1"}
E1Identities == {cameraIdentity(device_label[c]) : c \in E1Cameras}
WebhookIdentities == E1Identities \cup {DirectorIdentity}

\* the camera selection of event e1: the director's switch with its failure
\* cases, next to the requests and webhooks that change the cameras of e1
Next ==
  \/ \E c \in E1Cameras : Heartbeat(c)
  \/ \E c \in E1Cameras : TelegramStartStream(c)
  \/ \E c \in E1Cameras : TelegramStopStream(c)
  \/ \E id \in WebhookIdentities : handleParticipantJoined("e1", id)
  \/ \E id \in WebhookIdentities : handleParticipantLeft("e1", id)
  \/ \E id \in WebhookIdentities, t \in TrackTypes : handleTrackPublished("e1", id, t)
  \/ \E id \in WebhookIdentities, t \in TrackTypes : handleTrackUnpublished("e1", id, t)
  \/ handleRoomStarted("e1")
  \/ handleRoomFinished("e1")
  \/ \E d \in Dashboards, id \in roomCameraIdentities("e1") :
       SwitchSend(d, "e1", id, sessionRole[d], TRUE)
  \/ \E d \in Dashboards, res \in LayoutResults, ran \in BOOLEAN, ok \in BOOLEAN :
       SwitchLayout(d, res, ran, ok)
  \/ \E d \in Dashboards : SwitchDeactivate(d)
  \/ \E d \in Dashboards : SwitchActivate(d)

Spec == Init /\ [][Next]_vars

\* two directors switch cameras of e1 while the cameras join
NextRace ==
  \/ \E c \in E1Cameras : Heartbeat(c)
  \/ \E d \in Dashboards, id \in E1Identities : SwitchSend(d, "e1", id, "director", TRUE)
  \/ \E d \in Dashboards : SwitchDeactivate(d)
  \/ \E d \in Dashboards : SwitchActivate(d)

SpecRace == Init /\ [][NextRace]_vars

\* the liveness sweep: heartbeats, disconnects and the periodic cleanup of
\* both events while time passes and directors switch cameras of e1
NextSweep ==
  \/ Tick
  \/ \E c \in Cameras : Heartbeat(c)
  \/ \E c \in E1Cameras : Disconnect(c)
  \/ \E e \in Events : CleanupStale(e)
  \/ \E d \in Dashboards, id \in E1Identities : SwitchSend(d, "e1", id, "director", TRUE)
  \/ \E d \in Dashboards : SwitchDeactivate(d)
  \/ \E d \in Dashboards : SwitchActivate(d)

SpecSweep == Init /\ [][NextSweep]_vars

\* the broadcast bridge: the egress and the status of the events
NextBridge ==
  \/ \E e \in Events, k \in BOOLEAN, ok \in BOOLEAN : EgressStart(e, k, ok)
  \/ \E e \in Events, id \in E1Identities, ok \in BOOLEAN : EgressUpdateLayout(e, id, ok)
  \/ \E e \in Events : EgressStop(e)
  \/ \E g \in EgressIds : EgressEnds(g)
  \/ \E e \in Events : handleRoomStarted(e)
  \/ \E e \in Events : handleRoomFinished(e)
  \/ \E e \in Events : handleEgressStarted(e)
  \/ \E e \in Events : handleEgressEnded(e)
  \/ \E id \in MuxStreams : handleStreamActive(id)
  \/ \E id \in MuxStreams : handleStreamIdle(id)
  \/ \E id \in MuxStreams : handleStreamRecording(id)
  \/ \E id \in MuxStreams : handleStreamCompleted(id)

SpecBridge == Init /\ [][NextBridge]_vars

\* starting the broadcast: startStream of the dashboards of e1 next to
\* direct requests to the function and the end of egresses
NextStream ==
  \/ \E d \in Dashboards, k \in BOOLEAN, ok \in BOOLEAN : StartStreamInvoke(d, "e1", k, ok)
  \/ \E d \in Dashboards, allowed \in BOOLEAN : StartStreamUpdate(d, allowed)
  \/ \E e \in Events, k \in BOOLEAN, ok \in BOOLEAN : EgressStart(e, k, ok)
  \/ \E e \in Events : EgressStop(e)
  \/ \E g \in EgressIds : EgressEnds(g)

SpecStream == Init /\ [][NextStream]_vars

\* the ingest bridge: sessions are created, started and stopped over time
NextIngest ==
  \/ Tick
  \/ \E sid \in SessionIds : BridgeCreateSession(sid)
  \/ \E sid \in SessionIds, offer \in SdpOffers, ok \in BOOLEAN :
       BridgeStartStreaming(sid, offer, ok)
  \/ \E sid \in SessionIds : BridgeStopStreaming(sid)

SpecIngest == Init /\ [][NextIngest]_vars

\* a viewer of e1 next to the cameras in the room and a director who
\* switches between them
NextViewer ==
  \/ \E c \in E1Cameras : CameraPublishes(c)
  \/ ViewerConnect
  \/ \E id \in E1Identities : ViewerTrackSubscribed(id)
  \/ \E m \in Messages : ViewerDataReceived(m)
  \/ \E m \in Messages : DataLost(m)
  \/ \E d \in Dashboards, id \in E1Identities : onActivate(d, id)
  \/ \E d \in Dashboards : SwitchDeactivate(d)
  \/ \E d \in Dashboards : SwitchActivate(d)

SpecViewer == Init /\ [][NextViewer]_vars

\* a viewer of e1 while cameras start and stop streaming
NextFallback ==
  \/ \E c \in E1Cameras : CameraPublishes(c)
  \/ \E c \in E1Cameras : CameraStops(c)
  \/ ViewerConnect
  \/ \E id \in E1Identities : ViewerTrackSubscribed(id)
  \/ \E id \in E1Identities : ViewerTrackUnsubscribed(id)
  \/ \E id \in E1Identities : ViewerParticipantDisconnected(id)

SpecFallback == Init /\ [][NextFallback]_vars

\* the dashboards of two directors of e1, reloaded now and then, while the
\* cameras send heartbeats and disconnect
NextDash ==
  \/ \E c \in E1Cameras : Heartbeat(c)
  \/ \E c \in E1Cameras : Disconnect(c)
  \/ \E d \in Dashboards, id \in E1Identities, pub \in BOOLEAN :
       SwitchSend(d, "e1", id, "director", pub)
  \/ \E d \in Dashboards : SwitchDeactivate(d)
  \/ \E d \in Dashboards : SwitchActivate(d)
  \/ \E d \in Dashboards : DashboardReload(d)

SpecDash == Init /\ [][NextDash]_vars

\* the active camera of e1 is evicted or disconnects while the dashboards
\* of two directors show the cameras of the room
NextPromotion ==
  \/ Tick
  \/ \E c \in E1Cameras : Heartbeat(c)
  \/ \E c \in E1Cameras : Disconnect(c)
  \/ CleanupStale("e1")
  \/ \E c \in E1Cameras : CameraPublishes(c)
  \/ \E d \in Dashboards : AutoSelectFirstCamera(d)
  \/ \E d \in Dashboards, id \in E1Identities : onActivate(d, id)
  \/ \E d \in Dashboards : SwitchDeactivate(d)
  \/ \E d \in Dashboards : SwitchActivate(d)

SpecPromotion == Init /\ [][NextPromotion]_vars

\* cameras join events whose rooms start and finish
NextJoin ==
  \/ \E e \in Events : handleRoomStarted(e)
  \/ \E e \in Events : handleRoomFinished(e)
  \/ Tick
  \/ \E c \in Cameras : Disconnect(c)
  \/ \E c \in Cameras : CameraJoinsWithToken(event_id[c], cameraIdentity(device_label[c]))
  \/ \E e \in Events, label \in DeviceLabels, ok \in BOOLEAN : LivekitIngress(e, label, ok)

SpecJoin == Init /\ [][NextJoin]_vars

\* the hooks of a camera page and of a dashboard, with their requests
HookCameras == {None, "c1", "c2"}
HookEvents == {None, "e1"}
TimerIds == 1..(MaxTimers + 1)
Timers ==
  [id : TimerIds, kind : {"heartbeat"}, target : HookCameras \ {None}]
    \cup [id : TimerIds, kind : {"cleanup"}, target : HookEvents \ {None}]
Requests ==
  [action : {"heartbeat", "disconnect"}, target : HookCameras \ {None}, by : {"effect", "timer"}]
    \cup [action : {"cleanup-stale"}, target : HookEvents \ {None}, by : {"effect", "timer"}]

NextHooks ==
  \/ \E c \in HookCameras, enabled \in BOOLEAN : HeartbeatMount(c, enabled)
  \/ \E c \in HookCameras, enabled \in BOOLEAN : HeartbeatRender(c, enabled)
  \/ HeartbeatUnmount
  \/ \E t \in Timers : HeartbeatTimerFires(t)
  \/ \E e \in HookEvents, enabled \in BOOLEAN : CleanupMount(e, enabled)
  \/ \E e \in HookEvents, enabled \in BOOLEAN : CleanupRender(e, enabled)
  \/ CleanupUnmount
  \/ \E t \in Timers : CleanupTimerFires(t)

SpecHooks == Init /\ [][NextHooks]_vars

\* the hook of a camera page and its requests
NextHeartbeat ==
  \/ \E c \in HookCameras, enabled \in BOOLEAN : HeartbeatMount(c, enabled)
  \/ \E c \in HookCameras, enabled \in BOOLEAN : HeartbeatRender(c, enabled)
  \/ HeartbeatUnmount
  \/ \E t \in Timers : HeartbeatTimerFires(t)
  \/ \E r \in Requests : HeartbeatDelivered(r)
  \/ \E r \in Requests : DisconnectDelivered(r)

SpecHeartbeat == Init /\ [][NextHeartbeat]_vars

\* the interval of useRealtimeCleanup is shorter than one unit of the
\* clock: while the hook runs, time passes only after a cleanup-stale of
\* the current time
TickAfterSweep ==
  /\ rc.cleanupInterval # 0 => sweptAt = now
  /\ Tick

\* the camera page of 'Cam 2' sends heartbeats and stops, the dashboard of
\* e1 sweeps, and the camera 'Cam' publishes video tracks
NextEvict ==
  \/ TickAfterSweep
  \/ \E enabled \in BOOLEAN : HeartbeatMount("c2", enabled)
  \/ HeartbeatUnmount
  \/ \E t \in Timers : HeartbeatTimerFires(t)
  \/ \E r \in Requests : HeartbeatDelivered(r)
  \/ \E r \in Requests : DisconnectDelivered(r)
  \/ CleanupMount("e1", TRUE)
  \/ \E t \in Timers : CleanupTimerFires(t)
  \/ \E r \in Requests : CleanupStaleDelivered(r)
  \/ handleTrackPublished("e1", cameraIdentity(device_label["c1"]), "video")

SpecEvict == Init /\ [][NextEvict]_vars

\* the same without the tracks of the other camera
NextEvictAlone ==
  \/ TickAfterSweep
  \/ \E enabled \in BOOLEAN : HeartbeatMount("c2", enabled)
  \/ HeartbeatUnmount
  \/ \E t \in Timers : HeartbeatTimerFires(t)
  \/ \E r \in Requests : HeartbeatDelivered(r)
  \/ \E r \in Requests : DisconnectDelivered(r)
  \/ CleanupMount("e1", TRUE)
  \/ \E t \in Timers : CleanupTimerFires(t)
  \/ \E r \in Requests : CleanupStaleDelivered(r)

SpecEvictAlone == Init /\ [][NextEvictAlone]_vars

\* the camera pages start and stop streaming to the room
NextCamera ==
  \/ \E c \in Cameras, ready \in BOOLEAN, tokenOk \in BOOLEAN, connectOk \in BOOLEAN :
       LkStartStreaming(c, ready, tokenOk, connectOk)
  \/ \E c \in Cameras : LkRender(c)
  \/ \E c \in Cameras : LkStopStreaming(c)

SpecCamera == Init /\ [][NextCamera]_vars

\* a camera page streams through the ingest bridge
NextWebrtc ==
  \/ Tick
  \/ \E sid \in SessionIds : WebrtcInitialize(sid)
  \/ \E offer \in SdpOffers, ffmpegOk \in BOOLEAN, remoteOk \in BOOLEAN :
       WebrtcStartStreaming(offer, ffmpegOk, remoteOk)
  \/ WebrtcStopStreaming

SpecWebrtc == Init /\ [][NextWebrtc]_vars

\* the statuses of the events are updated in concurrent transactions
NextKeys ==
  \/ \E e \in Events, status \in event_status, k \in StreamKeys \cup {None} :
       TriggerSelects(e, status, k)
  \/ \E e \in Events : TriggerCommits(e)

SpecKeys == Init /\ [][NextKeys]_vars

\* the statuses of the events are updated one transaction after the other
NextKeysSerial ==
  \E e \in Events, status \in event_status, k \in StreamKeys \cup {None} :
    StatusUpdate(e, status, k)

SpecKeysSerial == Init /\ [][NextKeysSerial]_vars

(***************************************************************************)
(* Properties.                                                             *)
(***************************************************************************)
isActiveUnchanged == \A c \in Cameras : cameras'[c].is_active = cameras[c].is_active

activeCameras(eventId) == {c \in Cameras : event_id[c] = eventId /\ cameras[c].is_active}

dashRecord(d) == cameraRecord(dash[d].eventId, dash[d].participantIdentity)

\* C1: every camera row with is_active = true also has is_live = true.
ActiveImpliesLive == \A c \in Cameras : cameras[c].is_active => cameras[c].is_live

\* C2: once two interleaved setActiveCamera operations of the same event
\* have both finished, exactly one camera of the event has is_active = true.
RaceResolution ==
  (\A d \in Dashboards : dash[d].pc = "done" /\ dash[d].eventId = "e1")
    => Cardinality(activeCameras("e1")) = 1

\* C3: a failed update_layout call (error response or exception) does not
\* stop a director's switch: at the step that finishes the switch the
\* selected camera row has is_active = true and the layout_update message
\* the dashboard published is on the data channel.
BridgeIsolation ==
  [][\A d \in Dashboards :
       (/\ dash[d].pc # "done" /\ dash'[d].pc = "done"
        /\ dash'[d].requesterRole = "director"
        /\ dash'[d].layoutResult \in {"error", "thrown"})
       => /\ dashRecord(d) # None => cameras'[dashRecord(d)].is_active
          /\ dash[d].published =>
               layoutUpdateMessage(dash[d].eventId, dash[d].participantIdentity)
                 \in dataChannel']_vars

\* C3 witness: a director's switch finished after its update_layout call
\* threw or returned an error; the camera is active, the message published.
BridgeIsolationWitness ==
  \E d \in Dashboards :
    /\ dash[d].pc = "done"
    /\ dash[d].requesterRole = "director"
    /\ dash[d].layoutResult \in {"error", "thrown"}
    /\ dashRecord(d) # None
    /\ cameras[dashRecord(d)].is_active
    /\ dash[d].published
    /\ layoutUpdateMessage(dash[d].eventId, dash[d].participantIdentity) \in dataChannel

\* C4: no step of a select-active request of a requester who is not a
\* director changes an is_active flag or publishes a layout_update message.
NotAuthorized ==
  [][\A d \in Dashboards :
       (dash'[d] # dash[d] /\ dash'[d].requesterRole # "director")
       => isActiveUnchanged /\ dataChannel' = dataChannel]_vars

\* C5: a select-active request for a camera that is not connected
\* (is_live = false) is rejected: it publishes no layout_update message and
\* the switch does not go on to the requests that change is_active.
SourceNotAvailable ==
  [][\A d \in Dashboards :
       (/\ dash[d].pc \in {"idle", "done"} /\ dash'[d] # dash[d]
        /\ cameraRecord(dash'[d].eventId, dash'[d].participantIdentity) # None
        /\ ~recordIsLive(dash'[d].eventId, dash'[d].participantIdentity))
       => /\ dataChannel' = dataChannel
          /\ dash'[d].pc \notin {"layout", "persist", "activate"}]_vars

\* C6: a cleanup-stale sweep of event E sets is_live and is_active to false
\* on every camera of E that was live and refreshed more than two minutes
\* ago, leaves every other camera unchanged, and when it evicts an active
\* camera it leaves E with no active camera.
EvictionCorrectness ==
  [][\A e \in Events :
       CleanupStale(e) =>
         /\ \A c \in staleCameras(e) : ~cameras'[c].is_live /\ ~cameras'[c].is_active
         /\ \A c \in Cameras \ staleCameras(e) : cameras'[c] = cameras[c]
         /\ (\E c \in staleCameras(e) : cameras[c].is_active)
              => \A c \in Cameras : event_id[c] = e => ~cameras'[c].is_active]_vars

BridgeActiveImpliesLive ==
  \A g \in EgressIds :
    egress[g].state = "running" => events[egress[g].room].status = "live"

\* C9: at most one egress runs for an event, and a running egress is the
\* one whose id is stored on its event.
OneBridgePerEvent ==
  /\ \A e \in Events : Cardinality(runningEgresses(e)) <= 1
  /\ \A g \in EgressIds :
       egress[g].state = "running" => events[egress[g].room].mux_stream_id = g

\* C10: after a 'stop' for an event whose egress was running, no egress of
\* the event runs and the event stores no egress id, so that a later
\* update_layout finds no active egress and makes no layout request.
StopReturnsToAbsent ==
  [][\A e \in Events :
       (EgressStop(e) /\ runningEgresses(e) # {})
       => runningEgresses(e)' = {} /\ events'[e].mux_stream_id = NoStream]_vars

\* C11: when the /egress/layout request of an update_layout fails, the layout
\* of every egress stays the last applied one and the response does not
\* report status 'layout_updated' for the camera that was not applied.
LayoutFailureKeepsLastApplied ==
  [][\A e \in Events, id \in E1Identities, ok \in BOOLEAN :
       (/\ EgressUpdateLayout(e, id, ok)
        /\ events[e].mux_stream_id # NoStream
        /\ ~layoutRequestOk(events[e].mux_stream_id, ok))
       => /\ egress' = egress
          /\ layoutCall'.status # "layout_updated"
          /\ updateLayoutResponse(e, id, ok).activeCamera # id]_vars

\* C12: a 'start' that fails (no stream key, or a non-OK answer to the
\* egress start request) changes neither an event nor an egress, startStream
\* sees the error, and a startStream that saw an error does not go on to
\* write status live.
BridgeStartFailed ==
  [][/\ \A e \in Events, k \in BOOLEAN, ok \in BOOLEAN :
          (EgressStart(e, k, ok) /\ ~(k /\ ok)) => events' = events /\ egress' = egress
     /\ \A d \in Dashboards, k \in BOOLEAN, ok \in BOOLEAN :
          (StartStreamInvoke(d, "e1", k, ok) /\ ~(k /\ ok))
          => events' = events /\ egress' = egress /\ streamCall'[d].error
     /\ \A d \in Dashboards :
          (streamCall[d].error /\ streamCall'[d] # streamCall[d])
          => /\ streamCall[d].pc = "failed"
             /\ streamCall'[d].pc \in {"update", "failed"}
             /\ streamCall'[d].error => events' = events]_vars

\* C12 witness: a startStream failed while the event was not live, and the
\* event did not become live.
BridgeStartFailedWitness ==
  \E d \in Dashboards :
    /\ streamCall[d].pc = "failed"
    /\ streamCall[d].error
    /\ events[streamCall[d].eventId].status = "scheduled"
    /\ events[streamCall[d].eventId].mux_stream_id = NoStream

\* C13: startStreaming on a session whose status is 'streaming' is rejected:
\* the session record (process, offer, answer, startedAt) and the process
\* entry of the session stay as they are.
AlreadyStreaming ==
  [][\A sid \in SessionIds, offer \in SdpOffers, ok \in BOOLEAN :
       (BridgeStartStreaming(sid, offer, ok) /\ sessions[sid].status = "streaming")
       => /\ sessions'[sid] = sessions[sid]
          /\ ffmpegProcesses'[sid] = ffmpegProcesses[sid]]_vars

\* C14: the status of a session only moves from created to streaming, from
\* created or streaming to error, and from any status to stopped.
SessionStateMachine ==
  [][\A sid \in SessionIds :
       sessions'[sid].status # sessions[sid].status
       => \/ sessions[sid].status = "absent" /\ sessions'[sid].status = "created"
          \/ sessions[sid].status = "created" /\ sessions'[sid].status = "streaming"
          \/ /\ sessions[sid].status \in {"created", "streaming"}
             /\ sessions'[sid].status = "error"
          \/ sessions'[sid].status = "stopped"]_vars

\* C15: after stopStreaming the session is 'stopped' and has no process
\* entry, and stopStreaming on a stopped session changes nothing.
StopReleasesProcess ==
  [][\A sid \in SessionIds :
       BridgeStopStreaming(sid)
       => /\ sessions'[sid].status = "stopped"
          /\ ffmpegProcesses'[sid] = 0
          /\ sessions[sid].status = "stopped"
               => sessions' = sessions /\ ffmpegProcesses' = ffmpegProcesses]_vars

\* C16: when a switch to camera X publishes its layout_update message, the
\* update that makes the row of X active has already happened: at the step
\* that publishes, the row of X has is_active = true.
CommitBeforePublish ==
  [][\A d \in Dashboards :
       (/\ dash[d].pc \in {"idle", "done"} /\ dash'[d].pc \notin {"idle", "done"}
        /\ dash'[d].published
        /\ cameraRecord(dash'[d].eventId, dash'[d].participantIdentity) # None)
       => cameras'[cameraRecord(dash'[d].eventId, dash'[d].participantIdentity)].is_active]_vars

\* C17: the update_layout request of a switch is made only after the commit:
\* while a dashboard waits for that request, the row of the selected camera
\* already has is_active = true, so a request that never returns delays no
\* durable effect.
BridgeNeverBlocksSwitch ==
  \A d \in Dashboards :
    (dash[d].pc = "layout" /\ dashRecord(d) # None /\ dash[d].requesterRole = "director")
    => \/ cameras[dashRecord(d)].is_active
       \/ \E o \in Dashboards : o # d /\ dash[o].pc \in {"persist", "activate"}

\* the cameras of the room have all reached the viewer
allSubscribed == \A id \in E1Identities : inRoom(id) => id \in viewer.subscribed

noSwitchInProgress == \A d \in Dashboards : dash[d].pc \in {"idle", "done"}

\* C18: a viewer that connected after the last switch, when no switch is in
\* progress and the tracks of the room have reached it, has as its active
\* participant the camera whose row is the active one of the event.
LateJoinerReadsDurableState ==
  \A c \in E1Cameras :
    (/\ viewer.joined /\ switches > 0 /\ viewer.joinedAfter = switches
     /\ noSwitchInProgress /\ allSubscribed
     /\ activeCameras("e1") = {c})
    => viewer.activeParticipant = cameraIdentity(device_label[c])

\* C19: for a viewer that was connected during every switch, once no
\* layout_update message is in flight and no switch is in progress, the
\* active participant of the viewer is the camera whose row is the active
\* one of the event, in whatever order the messages arrived.
ReconciliationUnderReordering ==
  \A c \in E1Cameras :
    (/\ viewer.joined /\ switches >= 2 /\ viewer.joinedAfter = 0
     /\ noSwitchInProgress /\ inflight = {} /\ allSubscribed
     /\ activeCameras("e1") = {c})
    => viewer.activeParticipant = cameraIdentity(device_label[c])

\* C20: whenever no switch is in progress, the activeCameraIdentity of every
\* dashboard is the identity of a camera whose row has is_active = true, or
\* null when no camera of the event has is_active = true.
NoCompetingCopy ==
  noSwitchInProgress =>
    \A d \in Dashboards :
      \/ activeCameraIdentity(d) = << >> /\ activeCameras("e1") = {}
      \/ \E c \in activeCameras("e1") :
           activeCameraIdentity(d) = cameraIdentity(device_label[c])

\* C21: a disconnect or a sweep that clears the flags of an active camera
\* turns no other camera active and leaves the event with no active camera;
\* the effect that selects the first camera for the preview changes no
\* is_active flag; a camera becomes active only in the activating update of
\* a setActiveCamera for it.
NoAutoPromotion ==
  [][/\ \A c \in Cameras :
          (/\ cameras[c].is_active
           /\ \/ Disconnect(c)
              \/ CleanupStale(event_id[c]) /\ c \in staleCameras(event_id[c]))
          => /\ \A o \in Cameras : ~cameras[o].is_active => ~cameras'[o].is_active
             /\ \A o \in Cameras : event_id[o] = event_id[c] => ~cameras'[o].is_active
     /\ \A d \in Dashboards : AutoSelectFirstCamera(d) => isActiveUnchanged
     /\ \A o \in Cameras :
          (~cameras[o].is_active /\ cameras'[o].is_active)
          => \E d \in Dashboards : SwitchActivate(d) /\ dashRecord(d) = o]_vars

\* C22: for an event whose status is ended no room token is issued, a guest
\* cannot insert a camera row, and no join attempt turns a camera of the
\* event connected (is_live = true).
SessionNotJoinable ==
  [][\A e \in Events :
       events[e].status = "ended"
       => /\ \A c \in Cameras :
               ~livekitToken(e, cameraIdentity(device_label[c])).success
          /\ ~canInsertCamera("guest", e)
          /\ \A c \in Cameras :
               (event_id[c] = e /\ ~cameras[c].is_live) => ~cameras'[c].is_live]_vars

heartbeatTimers == {t \in timers : t.kind = "heartbeat"}
cleanupTimers == {t \in timers : t.kind = "cleanup"}

\* C27: each hook instance has at most one interval timer, and a timer
\* only starts a request while its hook is mounted and enabled, for the
\* cameraId / eventId the hook has now.
TimersBoundToOwner ==
  [][/\ Cardinality(heartbeatTimers') <= 1
     /\ Cardinality(cleanupTimers') <= 1
     /\ \A t \in Timers :
          HeartbeatTimerFires(t) => hb.mounted /\ hb.enabled /\ hb.cameraId = t.target
     /\ \A t \in Timers :
          CleanupTimerFires(t) => rc.mounted /\ rc.enabled /\ rc.eventId = t.target]_vars

\* both hooks had timers that started requests, and are unmounted
TimersBoundToOwnerWitness ==
  /\ ~hb.mounted /\ ~rc.mounted
  /\ timers = {}
  /\ \E r \in requests : r.by = "timer" /\ r.action = "heartbeat"
  /\ \E r \in requests : r.by = "timer" /\ r.action = "cleanup-stale"

\* C28: when the component unmounts while heartbeats are enabled for a
\* registered camera, a camera-status 'disconnect' request for that camera
\* is sent.
DisconnectOnTeardown ==
  [][(HeartbeatUnmount /\ hb.enabled /\ hb.cameraId # None)
       => \E r \in requests' : r.action = "disconnect" /\ r.target = hb.cameraId]_vars

\* C29: a camera whose 'disconnect' was applied stays is_live = false until
\* its hook starts heartbeats again; a heartbeat that was on its way when
\* the hook stopped does not set it back.
DisconnectNotUndone ==
  \A c \in disconnected : ~cameras[c].is_live

\* the hook of camera c sends no heartbeat any more: no timer is set for c
\* and no heartbeat for c is on its way
heartbeatsStopped(c) ==
  /\ hb.cameraId = c
  /\ \A t \in timers : ~(t.kind = "heartbeat" /\ t.target = c)
  /\ \A r \in requests : ~(r.action = "heartbeat" /\ r.target = c)

\* C23: while the periodic sweep of its event runs, a camera that stopped
\* sending heartbeats is is_live = false after every sweep that runs later
\* than the stale threshold after its last heartbeat (with the sweep
\* running in every interval: no later than the threshold plus one
\* interval after the last heartbeat).
EvictionLiveness ==
  [][\A r \in Requests, c \in Cameras :
       (/\ CleanupStaleDelivered(r)
        /\ r.target = event_id[c]
        /\ heartbeatsStopped(c)
        /\ now > hb.lastHeartbeat + StaleMinutes)
       => ~cameras'[c].is_live]_vars

\* the flags of a camera row
flags(row) == <<row.is_live, row.is_active>>

\* C24: 'disconnect' for camera C sets is_live = false and is_active =
\* false on C and changes the flags of no other camera; a 'disconnect' for
\* a camera that is already disconnected leaves the flags of every camera
\* unchanged.
DisconnectIdempotent ==
  [][\A c \in Cameras :
       Disconnect(c)
       => /\ flags(cameras'[c]) = <<FALSE, FALSE>>
          /\ \A o \in Cameras \ {c} : flags(cameras'[o]) = flags(cameras[o])
          /\ flags(cameras[c]) = <<FALSE, FALSE>>
               => \A o \in Cameras : flags(cameras'[o]) = flags(cameras[o])]_vars

\* the active camera was disconnected while another camera of its event is
\* connected
DisconnectIdempotentWitness ==
  \E c, o \in Cameras :
    /\ c # o /\ event_id[c] = event_id[o]
    /\ evicted[c] = "disconnect"
    /\ flags(cameras[c]) = <<FALSE, FALSE>>
    /\ cameras[o].is_live

\* no egress was started for the event
neverStarted(e) ==
  /\ events[e].mux_stream_id = NoStream
  /\ \A g \in EgressIds : egress[g].room # e

\* C25: a 'stop' for an event that is already stopped leaves the state of
\* the events and the egresses as it is, and a 'stop' for an event whose
\* bridge was never started changes no event.
BridgeStopIdempotent ==
  [][\A e \in Events :
       EgressStop(e)
       => /\ events[e].status = "ended" => (events' = events /\ egress' = egress)
          /\ neverStarted(e) => events' = events]_vars

DisplayFollowsDirector ==
  [][\A id \in E1Identities :
       (/\ ViewerTrackSubscribed(id)
        /\ viewer.activeParticipant # << >>
        /\ id # viewer.activeParticipant)
       => viewer'.activeParticipant = viewer.activeParticipant]_vars

\* C31: when the video track of the viewer's active participant is
\* unsubscribed, the viewer's active participant becomes a camera
\* participant of the room if there is one and is cleared otherwise; it
\* does not stay the camera that left.
ViewerFallback ==
  [][\A id \in E1Identities :
       (ViewerTrackUnsubscribed(id) /\ viewer.activeParticipant = id)
       => /\ viewer'.activeParticipant # id
          /\ remoteParticipants # << >> => inRoom(viewer'.activeParticipant)
          /\ remoteParticipants = << >> => viewer'.activeParticipant = << >>]_vars

\* C32: when startStreaming completes without error and calls
\* onStreamStart, the camera has joined the room and its video track is
\* published there.
StartedHasPublishedTrack ==
  [][\A c \in Cameras, tokenOk \in BOOLEAN, connectOk \in BOOLEAN :
       (LkStartStreaming(c, TRUE, tokenOk, connectOk) /\ startCompletes(c, TRUE))
       => lkStream'[c].joined /\ lkStream'[c].published]_vars

\* C33: when a setActiveCamera that published its layout_update for
\* participant X ends, the camera row of X exists and is the only is_active
\* camera of the event.
NoFanOutWithoutCommit ==
  [][\A d \in Dashboards :
       (/\ dash[d].pc \in {"persist", "activate"}
        /\ dash'[d].pc = "done"
        /\ dash'[d].published)
       => /\ dashRecord(d) # None
          /\ activeCameras(dash[d].eventId)' = {dashRecord(d)}]_vars

\* a webhook for identity X of event e1 ran
cameraWebhook(identity) ==
  \/ handleParticipantJoined("e1", identity)
  \/ handleParticipantLeft("e1", identity)
  \/ handleTrackPublished("e1", identity, "video")
  \/ handleTrackUnpublished("e1", identity, "video")

\* C34: a participant_joined, participant_left, track_published or
\* track_unpublished webhook for camera identity X changes the flags of no
\* camera other than the one registered under X's device label.
WebhookFrameCondition ==
  [][\A id \in E1Identities :
       cameraWebhook(id)
       => \A c \in Cameras :
            flags(cameras'[c]) # flags(cameras[c]) => c = cameraRecord("e1", id)]_vars

\* C35: once the status of an event is ended, no step changes it.
EndedIsTerminal ==
  [][\A e \in Events : events[e].status = "ended" => events'[e].status = "ended"]_vars

\* C36: in every reachable state where the status of an event is ended, no
\* camera of the event has is_live = true or is_active = true.
EndedHasNoSource ==
  \A c \in Cameras :
    events[event_id[c]].status = "ended" => flags(cameras[c]) = <<FALSE, FALSE>>

\* C37: after a startStreaming of the client that failed although the
\* bridge accepted the offer, it is not the case that the bridge session
\* is 'streaming' with a registered ffmpeg process while the client has
\* isStreaming = false and its peer connection closed.
ClientAndBridgeAgree ==
  [][\A offer \in SdpOffers :
       WebrtcStartStreaming(offer, TRUE, FALSE)
       => ~(/\ sessions'[webrtc.sessionId].status = "streaming"
            /\ ffmpegProcesses'[webrtc.sessionId] # 0
            /\ ~webrtc'.isStreaming
            /\ webrtc'.peerConnection = "closed")]_vars

\* C38: no stream key is the key of two events that are not ended.
StreamKeyMutualExclusion ==
  \A e1, e2 \in Events :
    (/\ e1 # e2
     /\ events[e1].status # "ended" /\ events[e2].status # "ended"
     /\ eventKey[e1] # None)
    => eventKey[e1] # eventKey[e2]

\* C39: no stream key is assigned to an event whose status is ended.
StreamKeyRelease ==
  \A e \in Events, k \in StreamKeys :
    events[e].status = "ended" => keys[k].assigned_event_id # e

=============================================================================
